---- MODULE Spec2Model ----
(***************************************************************************)
(* Model of api/cron.js: the scheduled run that drains the Telegram update *)
(* feed, applies create / close actions to the Upstash task ledger and     *)
(* sends the open-task report.                                             *)
(***************************************************************************)
EXTENDS Integers, Sequences, FiniteSets, TLC

VARIABLES
    env,        \* process environment: TG_TOKEN, ADMIN_CHAT_ID, CRON_SECRET, Upstash
    feed,       \* updates held by the Telegram server, not yet confirmed
    nextId,     \* update_id the server gives to the next update
    limit,      \* number of updates the server returns per getUpdates
    posted,     \* number of updates the environment has produced so far
    faults,     \* number of collaborator failures so far
    clock,      \* last value returned by Date.now()
    ledger,     \* Upstash store: key -> stored string, or Null
    pc,         \* position of the handler
    offset,     \* fetchAllUpdates: offset
    all,        \* fetchAllUpdates: all
    offsets,    \* offsets passed to t.getUpdates in this run, in order
    batchLens,  \* lengths of the batches t.getUpdates returned in this run
    ledger0,    \* the ledger when this run started
    err,        \* the error the catch block has caught, or "none"
    i,          \* apply loop: index of the next update of `updates`
    kvErr,      \* outcome of the ledger access of the last applied update
    cursor,     \* scan loop: cursor
    keys,       \* scan loop: keys
    j,          \* read loop: index of the next key of `keys`
    now,        \* const now = Date.now() of the report
    tasks,      \* read loop: tasks
    lines,      \* the rendered task lines (each a task and its age)
    chunks,     \* chunkMessages result still to send
    sent,       \* texts handed to t.sendMessage in this run that went through
    notified,   \* number of "Cron error" notifications attempted in this run
    response,   \* what res.status(..).json(..) was called with, or NoResponse
    chunkMax,   \* the maxLen a call of chunkMessages on its own is given
    racers      \* overlapping runs at a close: each one's position and val

vars == <<env, feed, nextId, limit, posted, faults, clock, ledger, pc, offset,
          all, offsets, batchLens, ledger0, err, i, kvErr, cursor, keys, j, now, tasks,
          lines, chunks, sent, notified, response, chunkMax, racers>>

(***************************************************************************)
(* Bounds of the model                                                     *)
(***************************************************************************)
MaxPosted == 3      \* updates the environment produces in one behaviour
MaxMsg == 2         \* message ids are 1..MaxMsg
MaxClock == 2       \* Date.now() ranges over 1..MaxClock
MaxFaults == 1      \* collaborator failures in one behaviour
SmallBatch == 2     \* page size of the feed in Spec
ScanPage == 1       \* keys the store returns per SCAN call
BatchLimit == 100   \* page size of the feed in DrainSpec
MaxStored == 4      \* the store holds records of message ids 1..MaxStored
MaxText == 401      \* length of the longest message text
MaxLines == 3       \* lines given to chunkMessages on its own
MaxBound == 6       \* largest maxLen given to chunkMessages on its own
MaxScanKeys == 2    \* keys after which the store on its own returns only empty pages
MaxCursor == 2      \* cursors of the store on its own are 0..MaxCursor

Min(a, b) == IF a < b THEN a ELSE b

(***************************************************************************)
(* Identities                                                              *)
(***************************************************************************)
ADMIN_CHAT_ID == "owner"
ChatIds == {"owner", "stranger", "group"}
MsgIds == 1..MaxMsg

(***************************************************************************)
(* Text: a string is the sequence of its code points                       *)
(***************************************************************************)
THUMB == 128077             \* U+1F44D
SPACE == 32
PlainText == <<66, 117, 121>>
SpacedText == <<SPACE, 66, SPACE, SPACE, 121, SPACE>>
ThumbText == <<THUMB>>
ThumbTone == <<111, 107, SPACE, THUMB, 127997>>
HeartText == <<10084>>

\* the same test when only the bare glyph is taken
THUMBS_UP_BARE(s) == s = <<THUMB>>

\* THUMBS_UP_RE.test(s): unanchored, the skin tone is optional
THUMBS_UP_RE(s) == \E k \in 1..Len(s) : s[k] = THUMB

IsSpace(c) == c \in {9, 10, 13, SPACE}

\* String(s).replace(/\s+/g, ' '): every run of white space becomes one space;
\* the range lo..hi of s is done by halves
RECURSIVE CollapseRange(_, _, _)
CollapseRange(s, lo, hi) ==
    IF lo > hi THEN <<>>
    ELSE IF lo = hi
    THEN (IF IsSpace(s[lo])
          THEN (IF lo < Len(s) /\ IsSpace(s[lo + 1]) THEN <<>> ELSE <<SPACE>>)
          ELSE <<s[lo]>>)
    ELSE LET mid == (lo + hi) \div 2
         IN  CollapseRange(s, lo, mid) \o CollapseRange(s, mid + 1, hi)

Collapse(s) == CollapseRange(s, 1, Len(s))

\* .trim()
RECURSIVE TrimLeft(_)
TrimLeft(s) == IF s # <<>> /\ IsSpace(s[1]) THEN TrimLeft(Tail(s)) ELSE s

RECURSIVE TrimRight(_)
TrimRight(s) ==
    IF s # <<>> /\ IsSpace(s[Len(s)]) THEN TrimRight(SubSeq(s, 1, Len(s) - 1)) ELSE s

Trim(s) == TrimRight(TrimLeft(s))

\* the three characters the source file has after the slice
ELLIPSIS == <<8218, 196, 182>>

snippet(s, max) ==
    IF s = <<>> THEN <<>>
    ELSE LET clean == Trim(Collapse(s))
         IN  IF Len(clean) > max
             THEN SubSeq(clean, 1, max - 1) \o ELLIPSIS
             ELSE clean

(***************************************************************************)
(* Updates of the feed                                                     *)
(***************************************************************************)
PrivateOwner == [id |-> "owner", type |-> "private"]
PrivateStranger == [id |-> "stranger", type |-> "private"]
Group == [id |-> "group", type |-> "group"]

Reaction(chat, actor, emojis, target) ==
    [kind |-> "message_reaction", chat |-> chat, from |-> actor,
     emojis |-> emojis, message_id |-> target, text |-> <<>>,
     reply_to |-> 0, date |-> 0]

Message(chat, sender, id, replyTo, text, date) ==
    [kind |-> "message", chat |-> chat, from |-> sender,
     emojis |-> <<>>, message_id |-> id, text |-> text,
     reply_to |-> replyTo, date |-> date]

\* what the environment can put on the feed
Reactions ==
    {Reaction(PrivateOwner, "owner", <<ThumbText>>, m) : m \in MsgIds}
    \cup {Reaction(PrivateOwner, "owner", <<HeartText>>, 1),
          Reaction(PrivateStranger, "stranger", <<ThumbText>>, 1)}

Messages ==
    {Message(PrivateOwner, "owner", m, 0, PlainText, MaxMsg + 1 - m) : m \in MsgIds}
    \cup {Message(PrivateOwner, "owner", 2, 1, ThumbTone, 1),
          Message(PrivateOwner, "owner", 1, 0, ThumbText, 1),
          Message(PrivateOwner, "owner", 1, 0, SpacedText, 1),
          Message(Group, "owner", 1, 0, PlainText, 1)}

Events == Reactions \cup Messages

WithId(e, id) == [x \in DOMAIN e \cup {"update_id"} |-> IF x = "update_id" THEN id ELSE e[x]]

(***************************************************************************)
(* The ledger: key task:<chat id>:<message id> -> stored value             *)
(***************************************************************************)
Keys == ChatIds \X (1..MaxStored)
TaskKey(chatId, msgId) == <<chatId, msgId>>

Null == [tag |-> "null"]
JSONstringify(obj) == [tag |-> "json", val |-> obj]
ParseThrows(v) == v.tag # "json"
JSONparse(v) == v.val

HasField(obj, f) == f \in DOMAIN obj
SetField(obj, f, v) == [x \in DOMAIN obj \cup {f} |-> IF x = f THEN v ELSE obj[x]]


(***************************************************************************)
(* Initial state: a fresh store, an empty feed, no request in progress     *)
(***************************************************************************)
Envs ==
    {[TG_TOKEN |-> TRUE, ADMIN |-> TRUE, CRON_SECRET |-> TRUE, UPSTASH |-> TRUE],
     [TG_TOKEN |-> TRUE, ADMIN |-> TRUE, CRON_SECRET |-> FALSE, UPSTASH |-> FALSE],
     [TG_TOKEN |-> FALSE, ADMIN |-> TRUE, CRON_SECRET |-> FALSE, UPSTASH |-> TRUE],
     [TG_TOKEN |-> TRUE, ADMIN |-> FALSE, CRON_SECRET |-> TRUE, UPSTASH |-> TRUE]}

Unset == <<>>
NoResponse == [status |-> 0]

RunLocalInit ==
    /\ offset = Unset
    /\ all = <<>>
    /\ offsets = <<>>
    /\ batchLens = <<>>
    /\ ledger0 = ledger
    /\ err = "none"
    /\ i = 1
    /\ kvErr = "none"
    /\ cursor = 0
    /\ keys = <<>>
    /\ j = 1
    /\ now = 0
    /\ tasks = <<>>
    /\ lines = <<>>
    /\ chunks = <<>>
    /\ sent = <<>>
    /\ notified = 0
    /\ response = NoResponse

Init ==
    /\ env \in Envs
    /\ feed = <<>>
    /\ nextId = 1
    /\ limit = SmallBatch
    /\ posted = 0
    /\ faults = 0
    /\ clock = 1
    /\ ledger = [k \in Keys |-> Null]
    /\ pc = "idle"
    /\ RunLocalInit
    /\ chunkMax = 0
    /\ racers = <<>>

runLocal == <<offset, all, offsets, batchLens, ledger0, err, i, kvErr, cursor, keys, j, now, tasks,
              lines, chunks, sent, notified, response>>
feedVars == <<feed, nextId, posted>>

(***************************************************************************)
(* The environment: a new update arrives on the feed                       *)
(***************************************************************************)
Post(e) ==
    /\ pc = "idle"
    /\ posted < MaxPosted
    /\ feed' = Append(feed, WithId(e, nextId))
    /\ nextId' = nextId + 1
    /\ posted' = posted + 1
    /\ UNCHANGED <<env, chunkMax, racers, limit, faults, clock, ledger, pc, runLocal>>


(***************************************************************************)
(* module.exports: the checks before any work                              *)
(***************************************************************************)
ResetRun ==
    /\ offset' = Unset
    /\ all' = <<>>
    /\ offsets' = <<>>
    /\ batchLens' = <<>>
    /\ ledger0' = ledger
    /\ err' = "none"
    /\ i' = 1
    /\ kvErr' = "none"
    /\ cursor' = 0
    /\ keys' = <<>>
    /\ j' = 1
    /\ now' = 0
    /\ tasks' = <<>>
    /\ lines' = <<>>
    /\ chunks' = <<>>
    /\ sent' = <<>>
    /\ notified' = 0

\* the same check when the key is never looked at
UnauthorizedNever(keyOk) == FALSE

\* the request's key parameter differs from a configured CRON_SECRET
Unauthorized(keyOk) == env.CRON_SECRET /\ ~keyOk

\* the same check when ADMIN_CHAT_ID is forgotten
MissingEnvTokenOnly == ~env.TG_TOKEN

MissingEnv == ~env.TG_TOKEN \/ ~env.ADMIN

Invoke(keyOk) ==
    /\ pc = "idle"
    /\ ResetRun
    /\ IF Unauthorized(keyOk)
       THEN /\ response' = [status |-> 401, error |-> "Unauthorized"]
            /\ pc' = "responded"
       ELSE IF MissingEnv
       THEN /\ response' = [status |-> 500, error |-> "Missing env vars"]
            /\ pc' = "responded"
       ELSE /\ response' = NoResponse
            /\ pc' = "fetch"
    /\ UNCHANGED <<env, chunkMax, racers, feedVars, limit, faults, clock, ledger>>

\* the handler has returned; the next request starts from scratch
Return ==
    /\ pc = "responded"
    /\ pc' = "idle"
    /\ ResetRun
    /\ response' = NoResponse
    /\ UNCHANGED <<env, chunkMax, racers, feedVars, limit, faults, clock, ledger>>

(***************************************************************************)
(* The feed server: getUpdates(offset) forgets the updates below offset    *)
(* and returns the first `limit` of the others, in update_id order         *)
(***************************************************************************)
From(q, id) ==
    LET below == Cardinality({k \in 1..Len(q) : q[k].update_id < id})
    IN  SubSeq(q, below + 1, Len(q))

Confirmed(q, off) == IF off = Unset THEN q ELSE From(q, off[1])

Batch(q, off) ==
    LET rest == Confirmed(q, off)
    IN  SubSeq(rest, 1, Min(limit, Len(rest)))

(***************************************************************************)
(* fetchAllUpdates                                                         *)
(***************************************************************************)
SAFETY_CAP == 2000
KEY_CAP == 5000

haveKV == env.UPSTASH

\* the same cursor when the + 1 is forgotten
NextOffsetSame(updates) == <<updates[Len(updates)].update_id>>

\* offset = updates[updates.length - 1].update_id + 1
NextOffset(updates) == <<updates[Len(updates)].update_id + 1>>

\* the same loop without the safety cap
DrainMoreNoCap(updates, allNew) == Len(updates) # 0

\* the loop goes on unless the batch was empty or the cap is exceeded
DrainMore(updates, allNew) == Len(updates) # 0 /\ ~(Len(allNew) > SAFETY_CAP)


(***************************************************************************)
(* Rendering                                                               *)
(***************************************************************************)
\* the three replace calls on one character
EscapeChar(c) ==
    CASE c = 38 -> <<38, 97, 109, 112, 59>>
      [] c = 60 -> <<38, 108, 116, 59>>
      [] c = 62 -> <<38, 103, 116, 59>>
      [] OTHER -> <<c>>

\* the range lo..hi of s, done by halves
RECURSIVE EscapeRange(_, _, _)
EscapeRange(s, lo, hi) ==
    IF lo > hi THEN <<>>
    ELSE IF lo = hi THEN EscapeChar(s[lo])
    ELSE LET mid == (lo + hi) \div 2
         IN  EscapeRange(s, lo, mid) \o EscapeRange(s, mid + 1, hi)

htmlEscape(s) == EscapeRange(s, 1, Len(s))

\* String(n) of a natural number
RECURSIVE Digits(_)
Digits(n) == IF n < 10 THEN <<48 + n>> ELSE Digits(n \div 10) \o <<48 + (n % 10)>>

DAY_MS == 24 * 60 * 60 * 1000

ageDays(fromTs, nowTs) ==
    IF fromTs = 0 \/ fromTs > nowTs THEN 0 ELSE (nowTs - fromTs) \div DAY_MS

\* String(text).split(/\r?\n/)[0]: what precedes the first \n or \r\n
FirstLine(s) ==
    LET nl == {k \in 1..Len(s) : s[k] = 10}
        p == CHOOSE k \in nl : \A x \in nl : k <= x
    IN  IF nl = {} THEN s
        ELSE IF p > 1 /\ s[p - 1] = 13 THEN SubSeq(s, 1, p - 2)
        ELSE SubSeq(s, 1, p - 1)

taskTitle(text) == snippet(Trim(FirstLine(text)), 200)

LRM == 8206
RLE == 8235
PDF == 8236
BULLET == <<8218, 196, 162, 32>>

formatTaskLine(t, nowTs) ==
    BULLET \o htmlEscape(taskTitle(t.text)) \o <<32, 60, 98, 62, LRM, 91>>
    \o Digits(ageDays(t.createdAt, nowTs)) \o <<100, 93, 60, 47, 98, 62>>

Header(n) ==
    <<60, 98, 62, 63743, 252, 252, 162, 32, 79, 112, 101, 110, 32,
      116, 97, 115, 107, 115, 58, 32>> \o Digits(n) \o <<60, 47, 98, 62>>

\* s.length: UTF-16 code units
Utf16Len(s) == Len(s) + Cardinality({k \in 1..Len(s) : s[k] > 65535})

NEWLINE == 10
MAX_LEN == 3800

\* the same loop when a line that overflows the chunk is left out
RECURSIVE ChunkLoopLossy(_, _, _, _)
ChunkLoopLossy(ls, maxLen, acc, cur) ==
    IF ls = <<>> THEN (IF cur # <<>> THEN Append(acc, cur) ELSE acc)
    ELSE LET add == ls[1] \o <<NEWLINE>>
             over == Utf16Len(cur \o add) > maxLen
         IN  ChunkLoopLossy(Tail(ls), maxLen, acc, IF over THEN cur ELSE cur \o add)

\* chunkMessages: the loop, with chunks and cur as accumulators
RECURSIVE ChunkLoop(_, _, _, _)
ChunkLoop(ls, maxLen, acc, cur) ==
    IF ls = <<>> THEN (IF cur # <<>> THEN Append(acc, cur) ELSE acc)
    ELSE LET add == ls[1] \o <<NEWLINE>>
             over == Utf16Len(cur \o add) > maxLen
             acc1 == IF over /\ cur # <<>> THEN Append(acc, cur) ELSE acc
             cur1 == IF over THEN <<>> ELSE cur
         IN  ChunkLoop(Tail(ls), maxLen, acc1, cur1 \o add)

chunkMessages(ls, maxLen) == ChunkLoop(ls, maxLen, <<>>, <<>>)

\* header, blank line and task lines
Payload(header, ls) ==
    (IF header # <<>> THEN <<header>> ELSE <<>>)
    \o (IF Len(ls) # 0 THEN <<(<<>>)>> \o ls ELSE <<>>)

NO_DATA == <<78, 111, 32, 100, 97, 116, 97>>

\* chunkMessages(payload.length ? payload : ['No data'])
ReportChunks(header, ls) ==
    LET payload == Payload(header, ls)
    IN  chunkMessages(IF Len(payload) # 0 THEN payload ELSE <<NO_DATA>>, MAX_LEN)

\* the same report when the tasks are left in the order of the keys
SortByNothing(ts) == ts

\* tasks.sort((a, b) => a.createdAt - b.createdAt): a stable insertion
RECURSIVE SortByCreatedAt(_)
Insert(t, sorted) ==
    LET after == {k \in 1..Len(sorted) : sorted[k].createdAt > t.createdAt}
        pos == IF after = {} THEN Len(sorted) + 1
               ELSE CHOOSE k \in after : \A m \in after : k <= m
    IN  SubSeq(sorted, 1, pos - 1) \o <<t>> \o SubSeq(sorted, pos, Len(sorted))

SortByCreatedAt(ts) ==
    IF ts = <<>> THEN <<>>
    ELSE Insert(ts[Len(ts)], SortByCreatedAt(SubSeq(ts, 1, Len(ts) - 1)))


\* EMOJI_REGEX.test(text)
hasEmoji(text) ==
    \E k \in 1..Len(text) :
        \/ text[k] \in 127462..127487
        \/ text[k] \in 127744..128511
        \/ text[k] \in 128512..128591
        \/ text[k] \in 128640..128767
        \/ text[k] \in 9728..9983
        \/ text[k] \in 9984..10175
        \/ text[k] \in 129280..129535
        \/ text[k] \in 129648..129791

\* new Date(ts).toISOString().slice(0, 10), for a time within the first day
formatDate(ts) == <<49, 57, 55, 48, 45, 48, 49, 45, 48, 49>>

IdText(id) ==
    CASE id = "owner" -> <<49>>
      [] id = "stranger" -> <<50>>
      [] OTHER -> <<45, 51>>

\* the fallback without Upstash: recent messages without emoji
IsCandidate(u, since) ==
    /\ u.kind = "message"
    /\ u.date # 0
    /\ ~(u.date * 1000 < since)
    /\ u.text # <<>>
    /\ ~hasEmoji(u.text)

RECURSIVE Candidates(_, _)
Candidates(us, since) ==
    IF us = <<>> THEN <<>>
    ELSE (IF IsCandidate(us[1], since) THEN <<us[1]>> ELSE <<>>)
         \o Candidates(Tail(us), since)

FallbackLine(u) ==
    BULLET \o <<60, 98, 62>> \o htmlEscape(<<99, 104, 97, 116, 58>> \o IdText(u.chat.id))
    \o <<60, 47, 98, 62, 32, 60, 105, 62, LRM, 91>> \o formatDate(u.date * 1000)
    \o <<93, 60, 47, 105, 62, 58, 32>> \o htmlEscape(snippet(u.text, 140))

FallbackHeader(n) ==
    <<60, 98, 62, 78, 111, 45, 101, 109, 111, 106, 105, 32, 109, 101, 115,
      115, 97, 103, 101, 115, 32, 105, 110, 32, 108, 97, 115, 116, 32, 50,
      52, 104, 58, 32>>
    \o Digits(n) \o <<60, 47, 98, 62>>

(***************************************************************************)
(* Date.now(): never goes back                                             *)
(***************************************************************************)
ClockReads == clock..Min(clock + 1, MaxClock)

(***************************************************************************)
(* fetchAllUpdates: one t.getUpdates(offset) and the rest of the iteration *)
(***************************************************************************)
GetUpdatesOk ==
    /\ pc = "fetch"
    /\ LET updates == Batch(feed, offset)
           allNew == all \o updates
       IN  /\ feed' = Confirmed(feed, offset)
           /\ offsets' = Append(offsets, offset)
           /\ batchLens' = Append(batchLens, Len(updates))
           /\ all' = allNew
           /\ offset' = IF Len(updates) = 0 THEN offset ELSE NextOffset(updates)
           /\ pc' = IF DrainMore(updates, allNew) THEN "fetch"
                    ELSE IF haveKV /\ allNew # <<>> THEN "apply"
                    ELSE "report"
    /\ UNCHANGED <<env, chunkMax, racers, nextId, limit, posted, faults, clock, ledger, ledger0,
                   err, i, kvErr, cursor, keys, j, now, tasks, lines, chunks, sent,
                   notified, response>>

\* the same catch when it does not try to tell the owner
ThrowSilent(e) ==
    /\ pc' = "catch"
    /\ err' = e
    /\ notified' = notified

\* an error thrown inside the try reaches the catch block, which first
\* tries to tell the owner
Throw(e) ==
    /\ pc' = "catch"
    /\ err' = e
    /\ notified' = IF env.TG_TOKEN /\ env.ADMIN THEN notified + 1 ELSE notified

\* the same check when a response that is not ok only ends the loop
FetchErrorBreak ==
    /\ pc' = IF haveKV /\ all # <<>> THEN "apply" ELSE "report"
    /\ UNCHANGED <<err, notified>>

\* if (!resp.ok) throw new Error(`getUpdates error: ...`)
FetchError == Throw("getUpdates error")

\* resp.ok is false, or the request throws
GetUpdatesFail ==
    /\ pc = "fetch"
    /\ faults < MaxFaults
    /\ faults' = faults + 1
    /\ offsets' = Append(offsets, offset)
    /\ FetchError
    /\ UNCHANGED <<env, chunkMax, racers, feedVars, limit, clock, ledger, ledger0, offset, all,
                   batchLens, i, kvErr, cursor, keys, j, now, tasks, lines, chunks,
                   sent, response>>


(***************************************************************************)
(* The apply loop: one update of `updates` per step                        *)
(***************************************************************************)
\* the same write-back when the time stamp is forgotten
MarkDoneNoStamp(obj, t) == SetField(obj, "done", TRUE)

\* the same write-back when done is flipped
MarkDoneToggle(obj, t) == SetField(SetField(obj, "done", ~obj.done), "doneAt", t)

\* the same write-back when a fresh object is written
MarkDoneFresh(obj, t) == [done |-> TRUE, doneAt |-> t]

\* obj.done = true; obj.doneAt = Date.now()
MarkDone(obj, t) == SetField(SetField(obj, "done", TRUE), "doneAt", t)

\* the same object when the text is stored as it came
NewTaskRawText(m) ==
    [id |-> <<m.chat.id, m.message_id>>,
     chat_id |-> m.chat.id,
     message_id |-> m.message_id,
     createdAt |-> m.date * 1000,
     text |-> m.text,
     done |-> FALSE]

\* the task object of a new message
NewTask(m) ==
    [id |-> <<m.chat.id, m.message_id>>,
     chat_id |-> m.chat.id,
     message_id |-> m.message_id,
     createdAt |-> m.date * 1000,
     text |-> snippet(m.text, 400),
     done |-> FALSE]

NoEffect == kvErr' = "none" /\ UNCHANGED <<ledger, clock, faults>>

\* the same close when a missing record is not skipped but started afresh
CloseTaskUpsert(taskKey) ==
    \/ /\ faults < MaxFaults
       /\ faults' = faults + 1
       /\ kvErr' = "get"
       /\ UNCHANGED <<ledger, clock>>
    \/ LET val == ledger[taskKey]
           obj == IF val = Null \/ ParseThrows(val) THEN [done |-> FALSE] ELSE JSONparse(val)
       IN  \E t \in ClockReads :
               /\ clock' = t
               /\ ledger' = [ledger EXCEPT ![taskKey] = JSONstringify(MarkDone(obj, t))]
               /\ kvErr' = "none"
               /\ UNCHANGED faults

\* kv.get(taskKey); if (val) { parse; mark done; kv.set(taskKey, ..) }
CloseTask(taskKey) ==
    \/ /\ faults < MaxFaults
       /\ faults' = faults + 1
       /\ kvErr' = "get"
       /\ UNCHANGED <<ledger, clock>>
    \/ LET val == ledger[taskKey]
       IN  IF val = Null
           THEN NoEffect
           ELSE IF ParseThrows(val)
           THEN kvErr' = "parse" /\ UNCHANGED <<ledger, clock, faults>>
           ELSE \E t \in ClockReads :
                   /\ clock' = t
                   /\ \/ /\ ledger' = [ledger EXCEPT ![taskKey] =
                                          JSONstringify(MarkDone(JSONparse(val), t))]
                         /\ kvErr' = "none"
                         /\ UNCHANGED faults
                      \/ /\ faults < MaxFaults
                         /\ faults' = faults + 1
                         /\ kvErr' = "set"
                         /\ UNCHANGED ledger

\* try { await kv.set(keyBase, JSON.stringify(task)); } catch {}
CreateTask(m) ==
    \/ /\ ledger' = [ledger EXCEPT ![TaskKey(m.chat.id, m.message_id)] =
                        JSONstringify(NewTask(m))]
       /\ kvErr' = "none"
       /\ UNCHANGED <<clock, faults>>
    \/ /\ faults < MaxFaults
       /\ faults' = faults + 1
       /\ kvErr' = "set"
       /\ UNCHANGED <<ledger, clock>>

\* the same test when any reaction symbol counts
hasAnyEmoji(emojis) == Len(emojis) > 0

\* emojis.some((e) => typeof e === 'string' && THUMBS_UP_RE.test(e))
hasThumb(emojis) == \E k \in 1..Len(emojis) : THUMBS_UP_RE(emojis[k])

\* a reaction that closes: private chat, the owner, a thumbs-up, a target
IsReactionClose(mr) ==
    /\ mr.chat.type = "private"
    /\ mr.from = ADMIN_CHAT_ID
    /\ hasThumb(mr.emojis)
    /\ mr.message_id # 0

\* the same test when the kind of chat is not looked at
IsOwnerMessageAnyChat(m) == m.from = ADMIN_CHAT_ID

\* a message the loop looks at: private chat, sent by the owner
IsOwnerMessage(m) == m.chat.type = "private" /\ m.from = ADMIN_CHAT_ID

isThumb(m) == IF m.text # <<>> THEN THUMBS_UP_RE(m.text) ELSE FALSE

IsReplyClose(m) == IsOwnerMessage(m) /\ m.reply_to # 0 /\ isThumb(m)

IsCreateTask(m) ==
    IsOwnerMessage(m) /\ m.reply_to = 0 /\ m.text # <<>> /\ ~isThumb(m)

\* the same key when the reply's own message id is taken
RepliedKeyOwn(m) == TaskKey(m.chat.id, m.message_id)

\* taskKey = `task:${chat.id}:${replied.message_id}`
RepliedKey(m) == TaskKey(m.chat.id, m.reply_to)

\* the end of one iteration of the loop
\* the same loop when an error of the ledger access is not caught
AdvanceRethrow ==
    /\ i' = i + 1
    /\ pc' = IF kvErr' \in {"get", "set"} THEN "catch"
             ELSE IF i = Len(all) THEN "report" ELSE "apply"
    /\ UNCHANGED <<env, chunkMax, racers, feedVars, limit, offset, all, offsets, batchLens,
                   ledger0, err, cursor, keys, j, now, tasks, lines, chunks, sent,
                   notified, response>>

Advance ==
    /\ i' = i + 1
    /\ pc' = IF i = Len(all) THEN "report" ELSE "apply"
    /\ UNCHANGED <<env, chunkMax, racers, feedVars, limit, offset, all, offsets, batchLens,
                   ledger0, err, cursor, keys, j, now, tasks, lines, chunks, sent,
                   notified, response>>

ApplyReaction ==
    /\ pc = "apply"
    /\ all[i].kind = "message_reaction"
    /\ IF IsReactionClose(all[i])
       THEN CloseTask(TaskKey(all[i].chat.id, all[i].message_id))
       ELSE NoEffect
    /\ Advance

ApplyMessage ==
    /\ pc = "apply"
    /\ all[i].kind = "message"
    /\ IF IsReplyClose(all[i])
       THEN CloseTask(RepliedKey(all[i]))
       ELSE IF IsCreateTask(all[i])
       THEN CreateTask(all[i])
       ELSE NoEffect
    /\ Advance


(***************************************************************************)
(* The report                                                              *)
(***************************************************************************)
\* sort, format, header, payload and chunkMessages, up to the first send
Render(found) ==
    LET sorted == SortByCreatedAt(found)
        ls == [k \in 1..Len(sorted) |-> formatTaskLine(sorted[k], now)]
    IN  /\ tasks' = sorted
        /\ lines' = ls
        /\ chunks' = ReportChunks(Header(Len(ls)), ls)
        /\ pc' = "send"

RenderFallback(nowTs) ==
    LET since == nowTs - DAY_MS
        candidates == Candidates(all, since)
        ls == [k \in 1..Len(candidates) |-> FallbackLine(candidates[k])]
    IN  /\ lines' = ls
        /\ chunks' = ReportChunks(FallbackHeader(Len(ls)), ls)
        /\ pc' = "send"

\* const now = Date.now(); then the first kv.scan, or the fallback
BeginReport ==
    /\ pc = "report"
    /\ \E t \in ClockReads :
          /\ clock' = t
          /\ now' = t
          /\ IF haveKV
             THEN pc' = "scan" /\ UNCHANGED <<lines, chunks>>
             ELSE RenderFallback(t)
    /\ UNCHANGED <<env, chunkMax, racers, feedVars, limit, faults, ledger, ledger0, err, offset,
                   all, offsets, batchLens, i, kvErr, cursor, keys, j, tasks, sent,
                   notified, response>>

\* the store's keys matching task:<ADMIN_CHAT_ID>:*, in the store's order
RECURSIVE Present(_)
Present(ks) ==
    IF ks = <<>> THEN <<>>
    ELSE (IF ledger[ks[1]] # Null THEN <<ks[1]>> ELSE <<>>) \o Present(Tail(ks))

Matching == Present([m \in 1..MaxStored |-> TaskKey(ADMIN_CHAT_ID, m)])

ScanResult(cur) ==
    [cursor |-> IF cur + ScanPage >= Len(Matching) THEN 0 ELSE cur + ScanPage,
     keys |-> SubSeq(Matching, cur + 1, Min(cur + ScanPage, Len(Matching)))]

\* the same loop when it stops after its first page
ScanMoreNever(cur, ks) == FALSE

\* while (cursor !== '0' && keys.length < 5000)
ScanMore(cur, ks) == cur # 0 /\ Len(ks) < KEY_CAP

\* the scan loop is over: the read loop, or straight to the rendering
AfterScan(ks) ==
    IF ks = <<>>
    THEN Render(<<>>)
    ELSE pc' = "read" /\ UNCHANGED <<tasks, lines, chunks>>

ScanOk ==
    /\ pc = "scan"
    /\ LET out == ScanResult(cursor)
           ks == keys \o out.keys
       IN  /\ cursor' = out.cursor
           /\ keys' = ks
           /\ IF ScanMore(out.cursor, ks)
              THEN pc' = "scan" /\ UNCHANGED <<tasks, lines, chunks>>
              ELSE AfterScan(ks)
    /\ UNCHANGED <<env, chunkMax, racers, feedVars, limit, faults, clock, ledger, ledger0, err,
                   offset, all, offsets, batchLens, i, kvErr, j, now, sent,
                   notified, response>>

\* kv.scan throws: the keys collected so far are kept
ScanFail ==
    /\ pc = "scan"
    /\ faults < MaxFaults
    /\ faults' = faults + 1
    /\ AfterScan(keys)
    /\ UNCHANGED <<env, chunkMax, racers, feedVars, limit, clock, ledger, ledger0, err, offset,
                   all, offsets, batchLens, i, kvErr, cursor, keys, j, now, sent,
                   notified, response>>

\* one iteration of the read loop; found is tasks after it
ReadStep(found) ==
    /\ IF j = Len(keys)
       THEN Render(found) /\ UNCHANGED j
       ELSE /\ j' = j + 1
            /\ tasks' = found
            /\ pc' = "read"
            /\ UNCHANGED <<lines, chunks>>
    /\ UNCHANGED <<env, chunkMax, racers, feedVars, limit, clock, ledger, ledger0, err, offset,
                   all, offsets, batchLens, i, kvErr, cursor, keys, now, sent,
                   notified, response>>

\* the same iteration when the done flag is not looked at
PushedAll(v) == IF v = Null \/ ParseThrows(v) THEN <<>> ELSE <<JSONparse(v)>>

\* what the iteration pushes for the value v of a key
Pushed(v) ==
    IF v = Null \/ ParseThrows(v) THEN <<>>
    ELSE IF JSONparse(v).done THEN <<>>
    ELSE <<JSONparse(v)>>

ReadTask ==
    /\ pc = "read"
    /\ ReadStep(tasks \o Pushed(ledger[keys[j]]))
    /\ UNCHANGED faults

\* the same failure when the read loop has no try around kv.get
ReadFailThrow ==
    /\ pc = "read"
    /\ faults < MaxFaults
    /\ faults' = faults + 1
    /\ Throw("Redis GET failed")
    /\ UNCHANGED <<env, chunkMax, racers, feedVars, limit, clock, ledger, ledger0, offset, all,
                   offsets, batchLens, i, kvErr, cursor, keys, j, now, tasks, lines,
                   chunks, sent, response>>

\* kv.get throws: the key is skipped
ReadFail ==
    /\ pc = "read"
    /\ faults < MaxFaults
    /\ faults' = faults + 1
    /\ ReadStep(tasks)

(***************************************************************************)
(* Sending the chunks, the responses                                       *)
(***************************************************************************)
Report(chunk) == [kind |-> "report", to |-> ADMIN_CHAT_ID, text |-> <<RLE>> \o chunk \o <<PDF>>]
CronError == [kind |-> "error", to |-> ADMIN_CHAT_ID, text |-> <<>>]

\* the same loop when it stops after its first iteration
LastChunkFirst(n) == n >= 1

\* for (const chunk of chunks): the n-th iteration is the last one
LastChunk(n) == n = Len(chunks)

SendChunk ==
    /\ pc = "send"
    /\ LET n == Len(sent) + 1
       IN  /\ sent' = Append(sent, Report(chunks[n]))
           /\ IF LastChunk(n)
              THEN /\ response' = [status |-> 200, ok |-> TRUE,
                                   checked |-> Len(all), reported |-> Len(lines)]
                   /\ pc' = "responded"
              ELSE UNCHANGED <<response, pc>>
    /\ UNCHANGED <<env, chunkMax, racers, feedVars, limit, faults, clock, ledger, ledger0, err,
                   offset, all, offsets, batchLens, i, kvErr, cursor, keys, j, now,
                   tasks, lines, chunks, notified>>

\* t.sendMessage rejects: the error reaches the catch
SendFail ==
    /\ pc = "send"
    /\ faults < MaxFaults
    /\ faults' = faults + 1
    /\ Throw("sendMessage error")
    /\ UNCHANGED <<env, chunkMax, racers, feedVars, limit, clock, ledger, ledger0, offset, all,
                   offsets, batchLens, i, kvErr, cursor, keys, j, now, tasks, lines,
                   chunks, sent, response>>

\* catch: the "Cron error" message goes through or not, then the 500
CatchRespond(delivered) ==
    /\ pc = "catch"
    /\ sent' = IF delivered /\ env.TG_TOKEN /\ env.ADMIN THEN Append(sent, CronError) ELSE sent
    /\ response' = [status |-> 500, error |-> err]
    /\ pc' = "responded"
    /\ UNCHANGED <<env, chunkMax, racers, feedVars, limit, faults, clock, ledger, ledger0, err,
                   offset, all, offsets, batchLens, i, kvErr, cursor, keys, j, now,
                   tasks, lines, chunks, notified>>

(***************************************************************************)
(* The specification                                                       *)
(***************************************************************************)
Next ==
    \/ \E e \in Events : Post(e)
    \/ \E keyOk \in BOOLEAN : Invoke(keyOk)
    \/ Return
    \/ GetUpdatesOk
    \/ GetUpdatesFail
    \/ ApplyReaction
    \/ ApplyMessage
    \/ BeginReport
    \/ ScanOk
    \/ ScanFail
    \/ ReadTask
    \/ ReadFail
    \/ SendChunk
    \/ SendFail
    \/ \E delivered \in BOOLEAN : CatchRespond(delivered)

Spec == Init /\ [][Next]_vars


(***************************************************************************)
(* The drainer alone, against a feed with a backlog that keeps refilling   *)
(***************************************************************************)
Filler == Message(Group, "stranger", 1, 0, PlainText, 1)

DrainBacklogs == {0, 1, SAFETY_CAP, SAFETY_CAP + 1}

DrainInit ==
    /\ env = [TG_TOKEN |-> TRUE, ADMIN |-> TRUE, CRON_SECRET |-> TRUE, UPSTASH |-> TRUE]
    /\ \E n \in DrainBacklogs :
          /\ feed = [k \in 1..n |-> WithId(Filler, k)]
          /\ nextId = n + 1
          /\ posted = n
    /\ limit = BatchLimit
    /\ faults = 0
    /\ clock = 1
    /\ ledger = [k \in Keys |-> Null]
    /\ pc = "fetch"
    /\ RunLocalInit
    /\ chunkMax = 0
    /\ racers = <<>>

\* a page of new updates arrives while the drainer is at work
Arrive ==
    /\ pc = "fetch"
    /\ Len(Confirmed(feed, offset)) < limit
    /\ feed' = feed \o [k \in 1..limit |-> WithId(Filler, nextId + k - 1)]
    /\ nextId' = nextId + limit
    /\ posted' = posted + limit
    /\ UNCHANGED <<env, chunkMax, racers, limit, faults, clock, ledger, pc, runLocal>>

DrainNext == GetUpdatesOk \/ GetUpdatesFail \/ Arrive

\* every fetch returns
DrainSpec ==
    DrainInit /\ [][DrainNext]_vars /\ WF_vars(GetUpdatesOk \/ GetUpdatesFail)


(***************************************************************************)
(* One run against a store that earlier runs (or another writer) have      *)
(* left, with at most one new update on the feed                           *)
(***************************************************************************)
LongText == [k \in 1..MaxText |-> 38]
BlankText == <<SPACE, SPACE>>

\* the value the create branch stores for an owner message
Stored(chat, m, text, date) ==
    JSONstringify(NewTask(Message(chat, "owner", m, 0, text, date)))

\* the value a close leaves
StoredDone(chat, m, text, date, doneAt) ==
    JSONstringify(MarkDone(NewTask(Message(chat, "owner", m, 0, text, date)), doneAt))

\* a value that JSON.parse rejects
Corrupt == [tag |-> "corrupt"]

EmptyStore == [k \in Keys |-> Null]

\* MaxStored open tasks with long titles, the newest under the lowest id
LongStore ==
    [k \in Keys |->
        IF k[1] = ADMIN_CHAT_ID
        THEN Stored(PrivateOwner, k[2], LongText, MaxStored + 1 - k[2])
        ELSE Null]

\* an open, a closed and a corrupt record of the owner, and records of
\* other chats
MixedStore ==
    [k \in Keys |->
        CASE k = <<"owner", 1>> -> Stored(PrivateOwner, 1, PlainText, 2)
          [] k = <<"owner", 2>> -> StoredDone(PrivateOwner, 2, PlainText, 1, 1)
          [] k = <<"owner", 3>> -> Corrupt
          [] k = <<"group", 1>> -> Stored(Group, 1, PlainText, 1)
          [] k = <<"stranger", 1>> -> Stored(PrivateStranger, 1, PlainText, 1)
          [] OTHER -> Null]

Stores == {EmptyStore, LongStore, MixedStore}

\* an update that has both message_reaction and message: mr with the text
\* and date of the message
ReactionWithMessage(mr, text, date) == [mr EXCEPT !.text = text, !.date = date]

\* U+1F3FB..U+1F3FF
SkinTones == 127995..127999

\* the thumbs-up and its five forms with a skin tone
ThumbForms == {<<THUMB>>} \cup {<<THUMB, tone>> : tone \in SkinTones}

\* other emoji: thumbs-down, bare and toned, OK hand, clapping hands with a
\* tone, a skin tone alone, heart, check mark
OtherEmojis ==
    {<<128078>>, <<128078, 127995>>, <<128076>>, <<128079, 127997>>, <<127995>>,
     HeartText, <<9989>>}

SingleEmojis == ThumbForms \cup OtherEmojis

ThumbInside == <<111, 107, SPACE, THUMB, SPACE, 111, 107>>

MoreReactions ==
    {Reaction(PrivateOwner, "owner", <<e>>, 1) : e \in SingleEmojis}
    \cup
    {Reaction(PrivateOwner, "stranger", <<ThumbText>>, 1),
     Reaction(Group, "owner", <<ThumbText>>, 1),
     Reaction(PrivateOwner, "owner", <<ThumbText>>, 0),
     Reaction(PrivateOwner, "owner", <<HeartText, ThumbText>>, 3),
     ReactionWithMessage(Reaction(PrivateOwner, "owner", <<HeartText>>, 4), PlainText, 1),
     ReactionWithMessage(Reaction(PrivateOwner, "owner", <<ThumbText>>, 4), PlainText, 1)}

MoreMessages ==
    {Message(PrivateOwner, "owner", 4, 1, e, 1) : e \in SingleEmojis \cup {ThumbInside}}
    \cup
    {Message(PrivateOwner, "owner", 2, 1, PlainText, 1),
     Message(PrivateOwner, "owner", 4, 0, <<>>, 1),
     Message(PrivateStranger, "stranger", 1, 0, PlainText, 1),
     Message(PrivateOwner, "stranger", 4, 0, PlainText, 1),
     Message(PrivateOwner, "owner", 4, 0, LongText, 2),
     Message(PrivateOwner, "owner", 4, 0, BlankText, 1),
     Message(PrivateOwner, "owner", 4, 3, ThumbText, 1),
     Message(Group, "owner", 2, 1, ThumbText, 1)}

StoreEvents == Events \cup MoreReactions \cup MoreMessages

StoreInit ==
    /\ env \in Envs
    /\ feed = <<>>
    /\ nextId = 1
    /\ limit = SmallBatch
    /\ posted = MaxPosted - 1
    /\ faults = 0
    /\ clock = 1
    /\ ledger \in Stores
    /\ pc = "idle"
    /\ RunLocalInit
    /\ chunkMax = 0
    /\ racers = <<>>

StoreNext ==
    \/ \E e \in StoreEvents : Post(e)
    \/ \E keyOk \in BOOLEAN : Invoke(keyOk)
    \/ Return
    \/ GetUpdatesOk
    \/ GetUpdatesFail
    \/ ApplyReaction
    \/ ApplyMessage
    \/ BeginReport
    \/ ScanOk
    \/ ScanFail
    \/ ReadTask
    \/ ReadFail
    \/ SendChunk
    \/ SendFail
    \/ \E delivered \in BOOLEAN : CatchRespond(delivered)

StoreSpec == StoreInit /\ [][StoreNext]_vars


(***************************************************************************)
(* chunkMessages on its own: any lines, any maxLen                         *)
(***************************************************************************)
\* lines: empty, short, longer, one of two UTF-16 units, one with a line feed
LineSet == {<<>>, <<97>>, <<97, 98, 99>>, <<THUMB>>, <<97, NEWLINE, 98>>}

RECURSIVE SeqsUpTo(_, _)
SeqsUpTo(S, n) ==
    IF n = 0 THEN {<<>>}
    ELSE LET shorter == SeqsUpTo(S, n - 1)
         IN  shorter \cup {Append(q, x) : q \in shorter, x \in S}

ChunkInit ==
    /\ env = [TG_TOKEN |-> TRUE, ADMIN |-> TRUE, CRON_SECRET |-> FALSE, UPSTASH |-> TRUE]
    /\ feed = <<>>
    /\ nextId = 1
    /\ limit = SmallBatch
    /\ posted = 0
    /\ faults = 0
    /\ clock = 1
    /\ ledger = [k \in Keys |-> Null]
    /\ pc = "chunk"
    /\ offset = Unset
    /\ all = <<>>
    /\ offsets = <<>>
    /\ batchLens = <<>>
    /\ ledger0 = ledger
    /\ err = "none"
    /\ i = 1
    /\ kvErr = "none"
    /\ cursor = 0
    /\ keys = <<>>
    /\ j = 1
    /\ now = 0
    /\ tasks = <<>>
    /\ lines \in SeqsUpTo(LineSet, MaxLines)
    /\ chunks = <<>>
    /\ sent = <<>>
    /\ notified = 0
    /\ response = NoResponse
    /\ chunkMax \in 1..MaxBound
    /\ racers = <<>>

\* chunks = chunkMessages(lines, maxLen)
ChunkStep ==
    /\ pc = "chunk"
    /\ chunks' = chunkMessages(lines, chunkMax)
    /\ pc' = "chunked"
    /\ UNCHANGED <<env, chunkMax, racers, feedVars, limit, faults, clock, ledger,
                   ledger0, err, offset, all, offsets, batchLens, i, kvErr, cursor,
                   keys, j, now, tasks, lines, sent, notified, response>>

ChunkNext == ChunkStep

ChunkSpec == ChunkInit /\ [][ChunkNext]_vars


(***************************************************************************)
(* The scan loop on its own, against a store that may answer a SCAN with   *)
(* any cursor and any page                                                 *)
(***************************************************************************)
\* a page that takes the loop to the key cap in one step
BigPage == [n \in 1..(KEY_CAP - 1) |-> TaskKey(ADMIN_CHAT_ID, 1)]

\* the pages the store may return once ks are collected
Pages(ks) ==
    {<<>>}
    \cup (IF Len(ks) < MaxScanKeys \/ Len(ks) >= KEY_CAP - 1
          THEN {<<TaskKey(ADMIN_CHAT_ID, m)>> : m \in 1..2}
          ELSE {})
    \cup (IF Len(ks) < MaxScanKeys THEN {BigPage} ELSE {})

ScanInit ==
    /\ env = [TG_TOKEN |-> TRUE, ADMIN |-> TRUE, CRON_SECRET |-> FALSE, UPSTASH |-> TRUE]
    /\ feed = <<>>
    /\ nextId = 1
    /\ limit = SmallBatch
    /\ posted = 0
    /\ faults = 0
    /\ clock = 1
    /\ ledger \in Stores
    /\ pc = "scan"
    /\ RunLocalInit
    /\ chunkMax = 0
    /\ racers = <<>>

\* one iteration of the scan loop with the answer the store chooses
ScanAny ==
    /\ pc = "scan"
    /\ \E next \in 0..MaxCursor, page \in Pages(keys) :
          LET ks == keys \o page
          IN  /\ cursor' = next
              /\ keys' = ks
              /\ IF ScanMore(next, ks)
                 THEN pc' = "scan" /\ UNCHANGED <<tasks, lines, chunks>>
                 ELSE AfterScan(ks)
    /\ UNCHANGED <<env, chunkMax, racers, feedVars, limit, faults, clock, ledger,
                   ledger0, err, offset, all, offsets, batchLens, i, kvErr, j, now,
                   sent, notified, response>>

ScanNext == ScanAny \/ ScanFail

\* every SCAN call returns or throws
ScanSpec == ScanInit /\ [][ScanNext]_vars /\ WF_vars(ScanNext)


(***************************************************************************)
(* Two overlapping runs, each at the close of the same record: kv.get,     *)
(* then the write-back with kv.set                                         *)
(***************************************************************************)
Racers == {1, 2}

\* the keys of a store that hold a record that parses
Tasks(store) == {k \in Keys : store[k] # Null /\ ~ParseThrows(store[k])}

RaceInit ==
    /\ env = [TG_TOKEN |-> TRUE, ADMIN |-> TRUE, CRON_SECRET |-> FALSE, UPSTASH |-> TRUE]
    /\ feed = <<>>
    /\ nextId = 1
    /\ limit = SmallBatch
    /\ posted = 0
    /\ faults = 0
    /\ clock = 1
    /\ ledger \in {LongStore, MixedStore}
    /\ pc = "race"
    /\ RunLocalInit
    /\ chunkMax = 0
    /\ \E k \in Tasks(ledger) :
          racers = [r \in Racers |-> [pc |-> "get", taskKey |-> k, obj |-> Null]]

\* val = await kv.get(taskKey); if (val) { obj = JSON.parse(val); obj.done =
\* true; obj.doneAt = Date.now(); ... the kv.set is on its way
RaceGet(r) ==
    /\ racers[r].pc = "get"
    /\ \/ /\ faults < MaxFaults
          /\ faults' = faults + 1
          /\ racers' = [racers EXCEPT ![r].pc = "done"]
          /\ UNCHANGED clock
       \/ LET val == ledger[racers[r].taskKey]
          IN  IF val = Null \/ ParseThrows(val)
              THEN /\ racers' = [racers EXCEPT ![r].pc = "done"]
                   /\ UNCHANGED <<clock, faults>>
              ELSE \E t \in ClockReads :
                      /\ clock' = t
                      /\ racers' = [racers EXCEPT ![r].pc = "set",
                                                   ![r].obj = MarkDone(JSONparse(val), t)]
                      /\ UNCHANGED faults
    /\ UNCHANGED <<env, chunkMax, feedVars, limit, ledger, pc, runLocal>>

\* await kv.set(taskKey, JSON.stringify(obj)) reaches the store, or fails
RaceSet(r) ==
    /\ racers[r].pc = "set"
    /\ racers' = [racers EXCEPT ![r].pc = "done"]
    /\ \/ /\ ledger' = [ledger EXCEPT ![racers[r].taskKey] = JSONstringify(racers[r].obj)]
          /\ UNCHANGED faults
       \/ /\ faults < MaxFaults
          /\ faults' = faults + 1
          /\ UNCHANGED ledger
    /\ UNCHANGED <<env, chunkMax, feedVars, limit, clock, pc, runLocal>>

RaceNext == \E r \in Racers : RaceGet(r) \/ RaceSet(r)

RaceSpec == RaceInit /\ [][RaceNext]_vars


(***************************************************************************)
(* Properties                                                              *)
(***************************************************************************)
IsDone(v) == v # Null /\ ~ParseThrows(v) /\ JSONparse(v).done

\* the update is a close (by reaction or by reply), and the key it closes
IsClose(u) ==
    \/ u.kind = "message_reaction" /\ IsReactionClose(u)
    \/ u.kind = "message" /\ IsReplyClose(u)

CloseTarget(u) ==
    TaskKey(u.chat.id, IF u.kind = "message_reaction" THEN u.message_id ELSE u.reply_to)

IsCreate(u) == u.kind = "message" /\ IsCreateTask(u)

\* C1: once the record of an identity has done = true, no later step of any
\* run leaves it with done = false.
C1_DoneMonotonic ==
    [][\A k \in Keys : IsDone(ledger[k]) => IsDone(ledger'[k])]_vars

\* C2: applying a create-task update whose identity already has a record
\* leaves the ledger as it is.
C2_CreateExistingNoOp ==
    [][(/\ pc = "apply"
        /\ IsCreate(all[i])
        /\ ledger[TaskKey(all[i].chat.id, all[i].message_id)] # Null)
       => ledger' = ledger]_vars

\* C3: applying a close to a target whose record is already done leaves the
\* ledger as it is: done stays true and doneAt keeps its first value.
C3_CloseIdempotent ==
    [][(/\ pc = "apply"
        /\ IsClose(all[i])
        /\ IsDone(ledger[CloseTarget(all[i])]))
       => ledger' = ledger]_vars

\* C4: a close whose target has no record creates no record, changes no
\* other record, does not fail the run, and the loop goes on to the next
\* update.
C4_CloseAbsentNoOp ==
    [][(/\ pc = "apply"
        /\ IsClose(all[i])
        /\ ledger[CloseTarget(all[i])] = Null)
       => (/\ ledger' = ledger
           /\ i' = i + 1
           /\ pc' = (IF i = Len(all) THEN "report" ELSE "apply")
           /\ err' = "none"
           /\ notified' = notified
           /\ response' = NoResponse)]_vars

\* a close of a missing record has been applied and another update follows
C4_Witness ==
    /\ pc = "apply"
    /\ i > 1
    /\ IsClose(all[i - 1])
    /\ kvErr = "none"
    /\ ledger[CloseTarget(all[i - 1])] = Null

\* C5: every record of the ledger has doneAt exactly when its done is true.
C5_DoneAtIffDone ==
    \A k \in Keys :
        (ledger[k] # Null /\ ~ParseThrows(ledger[k]))
        => (HasField(JSONparse(ledger[k]), "doneAt") <=> JSONparse(ledger[k]).done)

\* one record is closed and stamped while another is open and has no stamp
C5_Witness ==
    \E k1, k2 \in Keys :
        /\ IsDone(ledger[k1])
        /\ HasField(JSONparse(ledger[k1]), "doneAt")
        /\ ledger[k2] # Null
        /\ ~IsDone(ledger[k2])
        /\ ~HasField(JSONparse(ledger[k2]), "doneAt")

\* C6: the report is built only after every drained update has been
\* applied, no task it holds is done in the ledger, and its header and the
\* response count exactly the task lines.
C6_ReportExcludesClosed ==
    /\ (haveKV /\ pc \in {"report", "scan", "read", "send"}) => i = Len(all) + 1
    /\ \A n \in 1..Len(tasks) : ~tasks[n].done /\ ~IsDone(ledger[tasks[n].id])
    /\ (haveKV /\ pc = "send") =>
          /\ Len(lines) = Len(tasks)
          /\ chunks = chunkMessages(Payload(Header(Len(tasks)), lines), MAX_LEN)
          /\ \A k \in Keys : IsDone(ledger[k]) =>
                \A n \in 1..Len(tasks) : tasks[n].id # k
    /\ (haveKV /\ pc = "responded" /\ response.status = 200) =>
          response.reported = Len(tasks)

\* a run has drained a create and then its close, and reports no open task
C6_Witness ==
    /\ haveKV
    /\ pc = "responded"
    /\ response.status = 200
    /\ Len(all) = 2
    /\ IsCreate(all[1])
    /\ IsClose(all[2])
    /\ CloseTarget(all[2]) = TaskKey(all[1].chat.id, all[1].message_id)
    /\ IsDone(ledger[CloseTarget(all[2])])
    /\ response.reported = 0
    /\ chunks = <<Header(0) \o <<NEWLINE>>>>


\* the place in `all` where the n-th batch of this run ends
RECURSIVE BatchEnd(_)
BatchEnd(n) == IF n = 0 THEN 0 ELSE BatchEnd(n - 1) + batchLens[n]

\* the largest update_id of the n-th batch, which is not empty
MaxIdOfBatch(n) ==
    LET ids == {all[k].update_id : k \in (BatchEnd(n - 1) + 1)..BatchEnd(n)}
    IN  CHOOSE m \in ids : \A x \in ids : x <= m

\* C7: the first fetch of a run has no offset, every later one has the
\* largest update_id of the batch before it plus one, the offsets grow
\* strictly, and no update is drained twice.
C7_OffsetsAdvance ==
    /\ \A n \in 1..Len(offsets) :
          IF n = 1 THEN offsets[n] = Unset
          ELSE /\ batchLens[n - 1] > 0
               /\ offsets[n] = <<MaxIdOfBatch(n - 1) + 1>>
               /\ n > 2 => offsets[n][1] > offsets[n - 1][1]
    /\ \A n \in 2..Len(batchLens) :
          \A k \in (BatchEnd(n - 1) + 1)..BatchEnd(n) :
              all[k].update_id >= offsets[n][1]
    /\ \A k \in 2..Len(all) : all[k].update_id > all[k - 1].update_id

\* a run has fetched twice with an offset, after two batches with updates
C7_Witness ==
    /\ Len(offsets) >= 3
    /\ Len(batchLens) >= 2
    /\ batchLens[2] > 0

\* what holds of the drainer at every moment
DrainerStops ==
    /\ pc = "fetch" =>
          /\ Len(all) <= SAFETY_CAP
          /\ \A n \in 1..Len(batchLens) : batchLens[n] > 0
    /\ pc \notin {"fetch", "catch"} =>
          /\ batchLens # <<>>
          /\ batchLens[Len(batchLens)] = 0 \/ Len(all) > SAFETY_CAP
    /\ \A n \in 1..(Len(batchLens) - 1) :
          batchLens[n] > 0 /\ BatchEnd(n) <= SAFETY_CAP
    /\ Len(all) = BatchEnd(Len(batchLens))
    /\ \A k \in 1..Len(all) : all[k].update_id = k

\* C8: when every fetch returns the drainer ends; a fetch is issued only
\* while no batch was empty and at most 2000 updates are drained; and
\* the drained updates are in the order received.
C8_DrainerTerminates == <>(pc # "fetch") /\ []DrainerStops

\* the drainer has stopped on the cap, its last batch not being empty
C8_Witness ==
    /\ pc = "apply"
    /\ Len(all) > SAFETY_CAP
    /\ batchLens[Len(batchLens)] > 0

\* a getUpdates of this run has not returned a batch
FetchFailed == Len(offsets) > Len(batchLens)

\* C9: once a fetch of the run has failed, the run applies nothing to the
\* ledger, sends no report chunk, tries one error notification and answers
\* 500.
C9_FeedErrorAborts ==
    FetchFailed =>
        /\ pc \in {"catch", "responded"}
        /\ ledger = ledger0
        /\ i = 1
        /\ \A n \in 1..Len(sent) : sent[n].kind # "report"
        /\ notified = 1
        /\ pc = "responded" => response.status = 500

\* a run whose second fetch failed has answered
C9_Witness ==
    /\ FetchFailed
    /\ pc = "responded"
    /\ Len(batchLens) >= 1
    /\ all # <<>>
    /\ haveKV

\* C10: when the ledger get or set of an update fails, the ledger stays as
\* it is and the loop goes on with the next update.
C10_ApplyIsolated ==
    [][(pc = "apply" /\ kvErr' \in {"get", "set"})
       => (/\ ledger' = ledger
           /\ all' = all
           /\ i' = i + 1
           /\ pc' = (IF i = Len(all) THEN "report" ELSE "apply")
           /\ err' = "none")]_vars

\* the ledger access of an update has failed and the next update is up
C10_Witness ==
    /\ pc = "apply"
    /\ i > 1
    /\ kvErr \in {"get", "set"}


\* the step meets a failing ledger access or a record that does not parse
LedgerTrouble ==
    /\ pc \in {"apply", "scan", "read"}
    /\ \/ faults' # faults
       \/ pc = "apply" /\ kvErr' = "parse"
       \/ pc = "read" /\ ledger[keys[j]] # Null /\ ParseThrows(ledger[keys[j]])

\* the reports of all chunks, in order
AllReports == [n \in 1..Len(chunks) |-> Report(chunks[n])]

\* what a run that was not stopped by the feed or by a send has answered
EndsWithReport ==
    /\ pc = "catch" => err \in {"getUpdates error", "sendMessage error"}
    /\ (pc = "responded" /\ response.status = 500 /\ ~MissingEnv) => err # "none"
    /\ (pc = "responded" /\ err = "none" /\ response.status \notin {401, 500}) =>
          /\ response.status = 200
          /\ response.ok
          /\ chunks # <<>>
          /\ sent = AllReports

\* C11: a failing get, set or scan, or a record that does not parse, never
\* takes the run to the catch: the step leaves the ledger as it is, drops
\* only the update or the key at hand (a failing scan keeps the keys
\* collected so far, a failing read keeps the tasks collected so far) and
\* the run goes on; a run that neither the feed nor a send has stopped
\* answers 200 with ok = true after sending every chunk of its report.
C11_LedgerErrorsLocal ==
    /\ [][LedgerTrouble =>
            /\ err' = "none"
            /\ notified' = notified
            /\ response' = NoResponse
            /\ ledger' = ledger
            /\ all' = all
            /\ pc = "apply" => (i' = i + 1 /\ pc' \in {"apply", "report"})
            /\ pc = "scan" => (keys' = keys /\ pc' \in {"read", "send"})
            /\ pc = "read" =>
                  /\ keys' = keys
                  /\ pc' \in {"read", "send"}
                  /\ Len(tasks') = Len(tasks)
                  /\ \A n \in 1..Len(tasks) : \E m \in 1..Len(tasks') : tasks'[m] = tasks[n]
                  /\ pc' = "read" => j' = j + 1]_vars
    /\ []EndsWithReport

\* a run whose close failed on the ledger and whose read loop met a corrupt
\* record has sent its report and answered 200
C11_Witness ==
    /\ pc = "responded"
    /\ response.status = 200
    /\ kvErr \in {"get", "set"}
    /\ \E n \in 1..Len(keys) : ledger[keys[n]] = Corrupt
    /\ Len(tasks) = 1
    /\ sent = AllReports


\* the "Cron error" messages that went through in this run
ErrorsSent == {n \in 1..Len(sent) : sent[n].kind = "error"}

\* C12: a run that fails after the configuration checks (the feed fails, or
\* a send of a report chunk fails) tries the error notification exactly
\* once; whether or not that notification goes through, the next step is
\* the one 500 response, which nothing changes until the handler returns;
\* a run that does not fail this way tries no notification.
C12_OneNotification ==
    /\ [](/\ notified <= 1
          /\ Cardinality(ErrorsSent) <= notified
          /\ pc = "catch" =>
                (notified = 1 /\ response = NoResponse /\ ErrorsSent = {}
                 /\ err \in {"getUpdates error", "sendMessage error"})
          /\ (pc = "responded" /\ response.status = 500 /\ ~MissingEnv) =>
                (notified = 1 /\ err \in {"getUpdates error", "sendMessage error"})
          /\ (pc # "catch" /\ ~(pc = "responded" /\ response.status = 500)) =>
                notified = 0)
    /\ [][pc = "catch" =>
            (pc' = "responded" /\ response'.status = 500 /\ notified' = notified)]_vars
    /\ [][response # NoResponse => (pc' = "idle" /\ response' = NoResponse)]_vars

\* a send of the report has failed, the notification has failed too, and
\* the run has answered 500
C12_Witness ==
    /\ pc = "responded"
    /\ response.status = 500
    /\ err = "sendMessage error"
    /\ notified = 1
    /\ ErrorsSent = {}


\* the chunks put together again
RECURSIVE Flatten(_)
Flatten(cs) == IF cs = <<>> THEN <<>> ELSE cs[1] \o Flatten(Tail(cs))

\* the lines, each followed by a line feed
RECURSIVE JoinLines(_)
JoinLines(ls) == IF ls = <<>> THEN <<>> ELSE ls[1] \o <<NEWLINE>> \o JoinLines(Tail(ls))

\* C13: while the chunks are being sent no response exists and the messages
\* sent are the first chunks, in order; a run that has answered 200 has
\* sent every chunk of its report once and in order, the report has at
\* least one chunk, no chunk is empty, and the chunks together are the
\* header and the lines; with no open task the report is the header line
\* with count 0.
C13_ReportSent ==
    /\ pc = "send" =>
          /\ response = NoResponse
          /\ Len(sent) < Len(chunks)
          /\ sent = SubSeq(AllReports, 1, Len(sent))
    /\ (pc = "responded" /\ response.status = 200) =>
          /\ Len(chunks) >= 1
          /\ sent = AllReports
          /\ \A n \in 1..Len(chunks) : chunks[n] # <<>>
          /\ haveKV => Flatten(chunks) = JoinLines(Payload(Header(Len(lines)), lines))
          /\ (haveKV /\ tasks = <<>>) =>
                (/\ response.reported = 0
                 /\ sent = <<Report(Header(0) \o <<NEWLINE>>)>>)

\* a run has answered 200 after a report of two chunks
C13_Witness ==
    /\ pc = "responded"
    /\ response.status = 200
    /\ Len(chunks) >= 2
    /\ Len(sent) = Len(chunks)


\* the run has done nothing yet: no fetch, no ledger write, no message
NoWorkDone ==
    /\ offsets = <<>>
    /\ all = <<>>
    /\ offset = Unset
    /\ ledger = ledger0
    /\ i = 1
    /\ keys = <<>>
    /\ j = 1
    /\ sent = <<>>
    /\ notified = 0

\* the step touches neither the feed nor the ledger and sends nothing
NoWorkStep ==
    /\ feed' = feed
    /\ ledger' = ledger
    /\ offsets' = <<>>
    /\ sent' = <<>>
    /\ notified' = 0

\* C14: a request whose key is missing or differs from a configured
\* CRON_SECRET is answered 401 in the step that starts it, also when
\* TG_TOKEN or ADMIN_CHAT_ID is missing; that step and the return of the
\* handler fetch nothing from the feed (nothing is confirmed), leave the
\* ledger alone and send no message.
C14_Unauthorized401 ==
    /\ [][\A keyOk \in BOOLEAN :
            (Invoke(keyOk) /\ env.CRON_SECRET /\ ~keyOk) =>
                (/\ response' = [status |-> 401, error |-> "Unauthorized"]
                 /\ pc' = "responded"
                 /\ NoWorkStep)]_vars
    /\ [](response.status = 401 => (pc = "responded" /\ env.CRON_SECRET /\ NoWorkDone))
    /\ [][response.status = 401 => (pc' = "idle" /\ NoWorkStep)]_vars

\* a request with a wrong key was answered 401 although ADMIN_CHAT_ID is
\* missing, with updates waiting on the feed
C14_Witness ==
    /\ response.status = 401
    /\ ~env.ADMIN
    /\ feed # <<>>

\* C15: a request that passes the key check while TG_TOKEN or
\* ADMIN_CHAT_ID is missing is answered 500 with an error text in the step
\* that starts it; that step and the return of the handler fetch nothing,
\* leave the ledger alone and send no message, and no run ever leaves the
\* checks with one of the two missing.
C15_MissingEnv500 ==
    /\ [][\A keyOk \in BOOLEAN :
            (Invoke(keyOk) /\ (~env.TG_TOKEN \/ ~env.ADMIN) /\ (~env.CRON_SECRET \/ keyOk)) =>
                (/\ response'.status = 500
                 /\ HasField(response', "error")
                 /\ pc' = "responded"
                 /\ NoWorkStep)]_vars
    /\ []((~env.TG_TOKEN \/ ~env.ADMIN) =>
            (/\ pc \in {"idle", "responded"}
             /\ NoWorkDone
             /\ err = "none"
             /\ pc = "responded" => response.status \in {401, 500}))
    /\ [][(response.status = 500 /\ (~env.TG_TOKEN \/ ~env.ADMIN)) =>
            (pc' = "idle" /\ NoWorkStep)]_vars

\* a request was answered 500 for a missing TG_TOKEN or ADMIN_CHAT_ID, with
\* updates waiting on the feed
C15_Witness ==
    /\ response.status = 500
    /\ ~env.TG_TOKEN \/ ~env.ADMIN
    /\ feed # <<>>
    /\ sent = <<>>


\* C16: every response carries an ok flag: a 200 response has ok = true,
\* checked = the number of drained updates and reported = the number of
\* open tasks; a 401 or 500 response has an ok flag and an error text; and
\* a response, once produced, stays until the handler returns.
C16_ResponseHasOk ==
    response # NoResponse =>
        /\ pc = "responded"
        /\ HasField(response, "ok")
        /\ response.status = 200 =>
              (/\ response.ok
               /\ response.checked = Len(all)
               /\ response.reported = Len(lines))
        /\ response.status \in {401, 500} => HasField(response, "error")


\* the text holds the thumbs-up code point
HoldsThumb(text) == \E c \in 1..Len(text) : text[c] = THUMB

\* the four conditions of a closing reaction
FourConditions(u) ==
    /\ u.from = "owner"
    /\ u.chat.type = "private"
    /\ \E k \in 1..Len(u.emojis) : HoldsThumb(u.emojis[k])
    /\ u.message_id # 0

\* the step closes the record at key: done and doneAt are set, the other
\* fields and the other records stay
ClosesOnly(key) ==
    /\ \A k \in Keys \ {key} : ledger'[k] = ledger[k]
    /\ ledger'[key] # Null
    /\ ~ParseThrows(ledger'[key])
    /\ LET old == JSONparse(ledger[key])
           new == JSONparse(ledger'[key])
       IN  /\ DOMAIN new = DOMAIN old \cup {"done", "doneAt"}
           /\ new.done = TRUE
           /\ new.doneAt = clock'
           /\ \A f \in DOMAIN old \ {"done", "doneAt"} : new[f] = old[f]

\* the key has a record that parses
Readable(key) == key \in Keys /\ ledger[key] # Null /\ ~ParseThrows(ledger[key])

\* C17: applying a reaction update never puts a record under a key that
\* had none, also when the update carries a message as well; if the actor
\* is not the owner, the chat is not private, no symbol is a thumbs-up or
\* no target id is present, the ledger stays as it is; if all four hold and
\* the ledger access does not fail, the record at task:<chat id>:<target
\* id>, if it is there and parses, becomes done and nothing else changes.
C17_ReactionClose ==
    [][(pc = "apply" /\ all[i].kind = "message_reaction") =>
        LET u == all[i]
            key == TaskKey(u.chat.id, u.message_id)
        IN  /\ \A k \in Keys : ledger[k] = Null => ledger'[k] = Null
            /\ ~FourConditions(u) => ledger' = ledger
            /\ FourConditions(u) =>
                  IF Readable(key) /\ kvErr' = "none"
                  THEN ClosesOnly(key)
                  ELSE ledger' = ledger]_vars

\* a thumbs-up reaction of the owner that also carries a message has closed
\* the open record of its target, and no record was added
C17_Witness ==
    /\ pc # "apply"
    /\ i = 2
    /\ all[1].kind = "message_reaction"
    /\ all[1].text # <<>>
    /\ FourConditions(all[1])
    /\ ~IsDone(ledger0[TaskKey(all[1].chat.id, all[1].message_id)])
    /\ IsDone(ledger[TaskKey(all[1].chat.id, all[1].message_id)])
    /\ \A k \in Keys : ledger0[k] = Null => ledger[k] = Null


\* an owner message in a private chat
FromOwnerInPrivate(u) ==
    u.kind = "message" /\ u.from = "owner" /\ u.chat.type = "private"

\* C18: applying an owner message of a private chat that is a reply and
\* holds a thumbs-up closes the record of (same chat, id of the replied-to
\* message) if it is there and parses and the ledger access does not fail,
\* and otherwise changes nothing; the record under the reply's own message
\* id stays as it is, and no key without a record gets one.
C18_ReplyClose ==
    [][(/\ pc = "apply"
        /\ FromOwnerInPrivate(all[i])
        /\ all[i].reply_to # 0
        /\ HoldsThumb(all[i].text)) =>
        LET u == all[i]
            target == <<u.chat.id, u.reply_to>>
            own == <<u.chat.id, u.message_id>>
        IN  /\ IF Readable(target) /\ kvErr' = "none"
               THEN ClosesOnly(target)
               ELSE ledger' = ledger
            /\ own # target => ledger'[own] = ledger[own]
            /\ \A k \in Keys : ledger[k] = Null => ledger'[k] = Null]_vars

\* a thumbs-up reply has closed the record of the message it replies to,
\* while the open record under the reply's own id is as it was
C18_Witness ==
    /\ pc # "apply"
    /\ i = 2
    /\ FromOwnerInPrivate(all[1])
    /\ all[1].reply_to # 0
    /\ HoldsThumb(all[1].text)
    /\ ~IsDone(ledger0[<<all[1].chat.id, all[1].reply_to>>])
    /\ IsDone(ledger[<<all[1].chat.id, all[1].reply_to>>])
    /\ ledger[<<all[1].chat.id, all[1].message_id>>] # Null
    /\ ~IsDone(ledger[<<all[1].chat.id, all[1].message_id>>])
    /\ ledger[<<all[1].chat.id, all[1].message_id>>] = ledger0[<<all[1].chat.id, all[1].message_id>>]


\* no two neighbours of the text are both white space, and its ends are not
Tidy(text) ==
    /\ \A c \in 1..(Len(text) - 1) : ~(IsSpace(text[c]) /\ IsSpace(text[c + 1]))
    /\ text # <<>> => (~IsSpace(text[1]) /\ ~IsSpace(text[Len(text)]))

\* C19: applying an owner message of a private chat that is no reply, has
\* text and holds no thumbs-up leaves, unless the set fails, one record
\* under task:<chat id>:<message id>: done is false, there is no doneAt,
\* createdAt is the send time in milliseconds and text is the snippet (the
\* tidied text, cut to 399 characters and the ellipsis when longer than 400);
\* every other record stays as it is.
C19_CreateTask ==
    [][(/\ pc = "apply"
        /\ FromOwnerInPrivate(all[i])
        /\ all[i].reply_to = 0
        /\ all[i].text # <<>>
        /\ ~HoldsThumb(all[i].text)) =>
        LET u == all[i]
            key == <<u.chat.id, u.message_id>>
        IN  /\ \A k \in Keys \ {key} : ledger'[k] = ledger[k]
            /\ IF kvErr' = "none"
               THEN /\ ledger'[key] # Null
                    /\ ~ParseThrows(ledger'[key])
                    /\ JSONparse(ledger'[key]) =
                          [id |-> key, chat_id |-> u.chat.id, message_id |-> u.message_id,
                           createdAt |-> u.date * 1000, text |-> snippet(u.text, 400),
                           done |-> FALSE]
                    /\ Tidy(JSONparse(ledger'[key]).text)
                    /\ Len(JSONparse(ledger'[key]).text) <= 399 + Len(ELLIPSIS)
                    /\ Len(u.text) <= 400 => Len(JSONparse(ledger'[key]).text) <= Len(u.text)
               ELSE ledger' = ledger]_vars

\* a message with a text longer than 400 characters has become a new open
\* record with a cut text, next to the records that were there
C19_Witness ==
    /\ pc # "apply"
    /\ i = 2
    /\ FromOwnerInPrivate(all[1])
    /\ Len(all[1].text) > 400
    /\ ledger0[<<all[1].chat.id, all[1].message_id>>] = Null
    /\ ledger[<<all[1].chat.id, all[1].message_id>>] # Null
    /\ Len(JSONparse(ledger[<<all[1].chat.id, all[1].message_id>>]).text) = 399 + Len(ELLIPSIS)
    /\ \E k \in Keys : ledger0[k] # Null /\ ledger[k] = ledger0[k]


\* the message is one of the ignored ones
Ignored(u) ==
    /\ u.kind = "message"
    /\ \/ u.chat.type # "private"
       \/ u.from # "owner"
       \/ u.reply_to # 0 /\ ~HoldsThumb(u.text)
       \/ u.reply_to = 0 /\ (u.text = <<>> \/ HoldsThumb(u.text))

Field(obj, f) == IF f \in DOMAIN obj THEN <<obj[f]>> ELSE <<>>

\* the step applies a create-task update of key k
CreatesAt(k) ==
    pc = "apply" /\ IsCreate(all[i]) /\ TaskKey(all[i].chat.id, all[i].message_id) = k

\* the step applies a close whose target is k
ClosesAt(k) == pc = "apply" /\ IsClose(all[i]) /\ CloseTarget(all[i]) = k

RECURSIVE WholeLines(_, _)
WholeLines(cs, ls) ==
    IF cs = <<>> THEN ls = <<>>
    ELSE \E n \in 1..Len(ls) :
            /\ cs[1] = JoinLines(SubSeq(ls, 1, n))
            /\ WholeLines(Tail(cs), SubSeq(ls, n + 1, Len(ls)))

\* C22: for every list of lines and every maxLen, each chunk of
\* chunkMessages is a run of whole lines, each followed by a line feed, and
\* the chunks in order are the lines in order: none is lost, doubled or
\* moved, the empty ones included.
C22_ChunksWholeLines ==
    pc = "chunked" =>
        /\ WholeLines(chunks, lines)
        /\ Flatten(chunks) = JoinLines(lines)
        /\ \A n \in 1..Len(chunks) : chunks[n] # <<>>

\* lines with an empty one among them went into two chunks or more, one of
\* which holds two lines
C22_Witness ==
    /\ pc = "chunked"
    /\ Len(lines) = 3
    /\ \E n \in 1..Len(lines) : lines[n] = <<>>
    /\ Len(chunks) = 2
    /\ \E n \in 1..Len(chunks) : \E m \in 1..2 : chunks[n] = JoinLines(SubSeq(lines, m, m + 1))

\* C23: for every list of lines and every maxLen, no chunk of chunkMessages
\* has more than maxLen UTF-16 units.
C23_ChunksWithinBound ==
    pc = "chunked" => \A n \in 1..Len(chunks) : Utf16Len(chunks[n]) <= chunkMax


\* the report of the run is built
ReportBuilt == haveKV /\ (pc = "send" \/ (pc = "responded" /\ response.status = 200))

\* C24: in a built report the tasks are in ascending order of createdAt,
\* there is one line per task in that order, the first line of the report
\* is the header with the number of task lines, and the task lines follow
\* it in order.
C24_SortedWithCount ==
    ReportBuilt =>
        /\ \A n \in 1..(Len(tasks) - 1) : tasks[n].createdAt <= tasks[n + 1].createdAt
        /\ Len(lines) = Len(tasks)
        /\ \A n \in 1..Len(lines) : lines[n] = formatTaskLine(tasks[n], now)
        /\ LET text == Flatten(chunks)
               head == Header(Len(lines)) \o <<NEWLINE>>
           IN  /\ Len(text) >= Len(head)
               /\ SubSeq(text, 1, Len(head)) = head
               /\ Len(lines) = 0 => text = head
               /\ Len(lines) > 0 =>
                     SubSeq(text, Len(head) + 1, Len(text)) = <<NEWLINE>> \o JoinLines(lines)

\* the report of a store whose keys come newest first has answered 200 with
\* the oldest task on top
C24_Witness ==
    /\ pc = "responded"
    /\ response.status = 200
    /\ haveKV
    /\ Len(tasks) >= 3
    /\ tasks[1].createdAt < tasks[2].createdAt
    /\ tasks[1].message_id > tasks[2].message_id
    /\ response.reported = Len(tasks)


\* C25: a reaction of the owner whose one symbol is the thumbs-up or one of
\* its five skin tone forms, and a reply of the owner whose text is such a
\* form or has one inside, close the record of their target; with any
\* other single emoji as the symbol or the text the ledger stays as it is.
C25_ThumbForms ==
    [][(/\ pc = "apply"
        /\ all[i].from = "owner"
        /\ all[i].chat.type = "private"
        /\ kvErr' = "none") =>
        LET u == all[i]
        IN  /\ (u.kind = "message_reaction" /\ Len(u.emojis) = 1
                /\ Readable(<<u.chat.id, u.message_id>>)) =>
                  /\ u.emojis[1] \in ThumbForms => IsDone(ledger'[<<u.chat.id, u.message_id>>])
                  /\ u.emojis[1] \in OtherEmojis => ledger' = ledger
            /\ (u.kind = "message" /\ Readable(<<u.chat.id, u.reply_to>>)) =>
                  /\ u.text \in ThumbForms \cup {ThumbInside, ThumbTone} =>
                        IsDone(ledger'[<<u.chat.id, u.reply_to>>])
                  /\ u.text \in OtherEmojis => ledger' = ledger]_vars

\* a reaction with the darkest skin tone form has closed an open record
C25_Witness ==
    /\ pc # "apply"
    /\ i = 2
    /\ all[1].kind = "message_reaction"
    /\ all[1].emojis = <<(<<THUMB, 127999>>)>>
    /\ ~IsDone(ledger0[<<all[1].chat.id, all[1].message_id>>])
    /\ IsDone(ledger[<<all[1].chat.id, all[1].message_id>>])


\* C26: when every SCAN call returns, the scan loop ends, whatever cursors
\* and pages the store returns.
C26_ScanTerminates == <>(pc # "scan")


\* both runs are through with their close
RaceOver == \A r \in Racers : racers[r].pc = "done"

\* the key the two runs close
RaceKey == racers[1].taskKey

\* C27: when two runs close the same record, under every order of their
\* gets and sets a record that is done stays done, the other records stay
\* as they are, and once both runs are through without a failed ledger
\* access the record has done = true, a doneAt that one of them read, and
\* its other fields as before.
C27_CloseRace ==
    /\ [][IsDone(ledger[RaceKey]) => IsDone(ledger'[RaceKey])]_vars
    /\ [](\A k \in Keys \ {RaceKey} : ledger[k] = ledger0[k])
    /\ []((RaceOver /\ faults = 0) =>
            (/\ IsDone(ledger[RaceKey])
             /\ \E t \in 1..MaxClock :
                   JSONparse(ledger[RaceKey]) = MarkDone(JSONparse(ledger0[RaceKey]), t)))

\* both runs read the open record before either wrote, wrote different
\* doneAt, and are through: the record is done
C27_Witness ==
    /\ RaceOver
    /\ faults = 0
    /\ ~IsDone(ledger0[RaceKey])
    /\ \A r \in Racers : racers[r].obj # Null /\ racers[r].obj.done
    /\ racers[1].obj.doneAt # racers[2].obj.doneAt
    /\ \A r \in Racers :
          racers[r].obj = MarkDone(JSONparse(ledger0[RaceKey]), racers[r].obj.doneAt)
    /\ IsDone(ledger[RaceKey])


\* the update all[n] is confirmed to the feed: a later fetch of the run
\* that returned had an offset above its update_id
Acknowledged(n) ==
    \E m \in 2..Len(batchLens) : offsets[m][1] > all[n].update_id

\* C28: when a run with a ledger has answered, every update it confirmed
\* to the feed has been through the apply loop of that run.
C28_AckedAreApplied ==
    (pc = "responded" /\ haveKV) =>
        \A n \in 1..Len(all) : Acknowledged(n) => n < i


\* the keys whose record has done = false
OpenKeys == {k \in Keys : ledger[k] # Null /\ ~ParseThrows(ledger[k]) /\ ~IsDone(ledger[k])}

\* C29: in a ledger that the applier has filled every record is under a
\* key task:<ADMIN_CHAT_ID>:<message id>; and when no collaborator has
\* failed, a built report has one task per record with done = false and no
\* other task, each task being the record as stored, and one line per task.
C29_ReportIsOpenRecords ==
    /\ \A k \in Keys : ledger[k] # Null =>
          (/\ k[1] = ADMIN_CHAT_ID
           /\ ~ParseThrows(ledger[k])
           /\ JSONparse(ledger[k]).id = k)
    /\ (ReportBuilt /\ faults = 0) =>
          /\ {tasks[n].id : n \in 1..Len(tasks)} = OpenKeys
          /\ Len(tasks) = Cardinality(OpenKeys)
          /\ \A n \in 1..Len(tasks) : ledger[tasks[n].id] = JSONstringify(tasks[n])
          /\ Len(lines) = Len(tasks)
          /\ \A n \in 1..Len(lines) : lines[n] = formatTaskLine(tasks[n], now)
          /\ pc = "responded" => response.reported = Cardinality(OpenKeys)

\* a run without failures has scanned two keys and reported the open task
\* of a ledger that also holds a closed one
C29_Witness ==
    /\ pc = "responded"
    /\ response.status = 200
    /\ haveKV
    /\ faults = 0
    /\ Len(keys) = 2
    /\ Cardinality(OpenKeys) = 1
    /\ Len(tasks) = 1
    /\ \E k \in Keys : IsDone(ledger[k])

====
